---- MODULE Spec2Model ----
(***************************************************************************)
(* A model of fire.py (FireProx API Gateway Manager).                      *)
(*                                                                         *)
(* Strings that the program only tests for truthiness are modelled by      *)
(* "" (None or the empty string, both falsy in Python) and a non-empty     *)
(* value.  URLs and the definition document are sequences of tokens; the   *)
(* string is the concatenation of the tokens.  The tokens are chosen so    *)
(* that an occurrence of a pattern ('/{proxy}', '{{url}}', '{{title}}',    *)
(* '{{version_date}}') in the string is an occurrence of the pattern's     *)
(* tokens in the sequence and conversely.                                  *)
(* Gateway ids are the numbers 1, 2, ...; 0 is a missing (None or empty)   *)
(* api_id.                                                                 *)
(***************************************************************************)
EXTENDS Naturals, Sequences, FiniteSets, TLC

\* Longest URL, in tokens.
MaxUrlLen == 3
\* Number of gateways the account may hold before the run.
MaxApis == 2

VARIABLES
    \* FireProx fields set from the command line (fire.py 13-20)
    profile_name, access_key, secret_access_key, session_token, region,
    command, api_id, url,
    \* FireProx.client / FireProx.session (fire.py 22-23) and the keyword
    \* arguments load_creds hands to boto3.session.Session
    client, session_details,
    \* the provider: the gateways of the account (in listing order), the
    \* gateways it held when the run started, and the integration URI of each
    \* gateway's wildcard resource
    apis, apis0, uri,
    \* position of the run, how it ended, and the message given to sys.exit
    pc, status, errmsg,
    \* what was printed, and the provider calls made, in order
    out, calls,
    \* locals: list_api's response['items'] and loop position, the resource id
    \* found by get_resource, the (stripped) url of update_api, the id returned
    \* by import_rest_api, the result in main
    items, idx, resource_id, new_url, response_id, result

credVars == <<profile_name, access_key, secret_access_key, session_token, region>>
argVars  == <<command, api_id, url, apis0>>
sessVars == <<client, session_details>>
locVars  == <<items, idx, resource_id, new_url, response_id, result>>
vars == <<profile_name, access_key, secret_access_key, session_token, region,
          command, api_id, url, client, session_details, apis, apis0, uri,
          pc, status, errmsg, out, calls,
          items, idx, resource_id, new_url, response_id, result>>

---------------------------------------------------------------------------
(* Token strings *)

UrlTokens == {"x", "/", "{proxy}", "{{title}}"}

RECURSIVE SeqsUpTo(_, _)
SeqsUpTo(S, n) ==
    IF n = 0 THEN {<< >>}
    ELSE LET shorter == SeqsUpTo(S, n - 1)
         IN  shorter \cup {Append(s, t) : s \in shorter, t \in S}

Urls == SeqsUpTo(UrlTokens, MaxUrlLen)

\* Python's str.replace(old, new): every non-overlapping occurrence, left to
\* right, the replacement text not rescanned.
RECURSIVE Replace(_, _, _)
Replace(s, old, new) ==
    IF Len(s) < Len(old) THEN s
    ELSE IF SubSeq(s, 1, Len(old)) = old
         THEN new \o Replace(SubSeq(s, Len(old) + 1, Len(s)), old, new)
         ELSE <<s[1]>> \o Replace(Tail(s), old, new)

\* url[-1] == '/'  =>  url[:-1]   (on a non-empty url)
StripSlash(u) ==
    IF u[Len(u)] = "/" THEN SubSeq(u, 1, Len(u) - 1) ELSE u

RECURSIVE BeforeSlash(_)
BeforeSlash(u) ==
    IF u = << >> \/ Head(u) = "/" THEN << >>
    ELSE <<Head(u)>> \o BeforeSlash(Tail(u))

\* tldextract.extract(url).domain for a URL of these tokens: a leading '//'
\* is dropped, the host is what precedes the first '/', and a host without
\* dots that is no public suffix is its own domain.
Domain(u) ==
    BeforeSlash(IF Len(u) >= 2 /\ u[1] = "/" /\ u[2] = "/"
                THEN SubSeq(u, 3, Len(u)) ELSE u)

\* f'{datetime.datetime.now():%Y-%m-%dT%XZ}'
version_date == <<"2026-10-30T12:00:00Z">>

\* The template text: T0..T4 are its fixed stretches, which hold none of the
\* placeholders.  T2 ends with  "uri": "  and T3 and T4 start with the
\* closing quote of a uri.
TemplateText ==
    <<"T0", "{{version_date}}", "T1", "{{title}}", "T2",
      "{{url}}", "/", "T3", "{{url}}", "/", "{proxy}", "T4">>

get_template(self_url) ==
    LET u     == StripSlash(self_url)
        title == <<"fireprox_">> \o Domain(u)
        t1    == Replace(TemplateText, <<"{{url}}">>, u)
        t2    == Replace(t1, <<"{{title}}">>, title)
    IN  Replace(t2, <<"{{version_date}}">>, version_date)

---------------------------------------------------------------------------
(* error() and the bookkeeping shared by the actions *)

Line(k, id) == [k |-> k, id |-> id]
Call(op, id, ok, arg) == [op |-> op, id |-> id, ok |-> ok, arg |-> arg]

\* FireProx.error: print(self.help), then sys.exit(error)
error(printed, msg) ==
    /\ out' = Append(printed, Line("help", 0))
    /\ status' = "exit"
    /\ errmsg' = msg
    /\ pc' = "done"

\* An exception nothing catches: a traceback, no help text.
crash(exc) ==
    /\ out' = out
    /\ status' = "crash"
    /\ errmsg' = exc
    /\ pc' = "done"

---------------------------------------------------------------------------
(* FireProx.__init__ and load_creds *)

Values == {"", "v"}
Regions == {"", "us-east-1"}

\* The keyword parameters of boto3.session.Session.__init__
SessionParams ==
    {"aws_access_key_id", "aws_secret_access_key", "aws_session_token",
     "region_name", "botocore_session", "profile_name", "aws_account_id"}

\* load_creds tries the explicit keys before the profile
CredSourceKeysFirst(p, a, s) ==
    IF p = "" /\ a = "" /\ s = "" THEN "instance"
    ELSE IF a # "" /\ s # "" THEN "keys"
    ELSE IF p # "" THEN "profile"
    ELSE "usage"

\* The branch load_creds takes
CredSource(p, a, s) ==
    IF p = "" /\ a = "" /\ s = "" THEN "instance"
    ELSE IF p # "" THEN "profile"
    ELSE IF a # "" /\ s # "" THEN "keys"
    ELSE "usage"

\* The dictionary load_creds builds, before region_name is added
SessionDetails(p, a, s, t) ==
    IF CredSource(p, a, s) = "profile" THEN "profile_name" :> p
    ELSE IF t # ""
         THEN ("aws_access_key_id" :> a) @@ ("aws_secret_access_key" :> s)
              @@ ("aws_sessoin_token" :> t)
         ELSE ("aws_access_key_id" :> a) @@ ("aws_secret_access_key" :> s)

\* __init__ up to the region check
Construct ==
    /\ pc = "init"
    /\ IF access_key # "" /\ secret_access_key # "" /\ region = ""
       THEN error(out, "Please provide a region with AWS credentials")
       ELSE /\ pc' = "load_creds"
            /\ UNCHANGED <<out, status, errmsg>>
    /\ UNCHANGED <<credVars, argVars, sessVars, apis, uri, calls, locVars>>

\* load_creds up to the try block
load_creds ==
    /\ pc = "load_creds"
    /\ LET src == CredSource(profile_name, access_key, secret_access_key)
       IN  CASE src = "instance" ->
                  /\ pc' = "instance_profile"
                  /\ UNCHANGED <<out, status, errmsg, session_details>>
             [] src = "usage" ->
                  /\ error(out, "Please configure a profile or provice access keys")
                  /\ UNCHANGED session_details
             [] OTHER ->
                  /\ session_details' = SessionDetails(profile_name, access_key,
                                            secret_access_key, session_token)
                  /\ pc' = "session"
                  /\ UNCHANGED <<out, status, errmsg>>
    /\ UNCHANGED <<credVars, argVars, client, apis, uri, calls, locVars>>

\* The region of a client made without region_name: the environment's
EnvRegions == {"eu-west-1"}

\* _try_instance_profile: boto3.client(...) raises, the bare except returns
\* False, __init__ ends with error()
InstanceClientFails ==
    /\ pc = "instance_profile"
    /\ error(out, "Unable to load AWS credentials")
    /\ UNCHANGED <<credVars, argVars, sessVars, apis, uri, calls, locVars>>

\* _try_instance_profile: the client is made and kept, get_account() raises,
\* the bare except returns False, __init__ ends with error()
InstanceGetAccountFails ==
    /\ pc = "instance_profile"
    /\ client' = "apigateway"
    /\ calls' = Append(calls, Call("get_account", 0, FALSE, << >>))
    /\ error(out, "Unable to load AWS credentials")
    /\ UNCHANGED <<credVars, argVars, session_details, apis, uri, locVars>>

\* _try_instance_profile: the client is made, get_account() answers, and
\* self.region becomes the client's region
InstanceOk ==
    /\ pc = "instance_profile"
    /\ client' = "apigateway"
    /\ calls' = Append(calls, Call("get_account", 0, TRUE, << >>))
    /\ \E env \in EnvRegions : region' = IF region = "" THEN env ELSE region
    /\ pc' = "main"
    /\ UNCHANGED <<profile_name, access_key, secret_access_key, session_token,
                   argVars, session_details, apis, uri, out, status, errmsg,
                   locVars>>

\* _try_instance_profile, and __init__'s error when it returns False
try_instance_profile ==
    \/ InstanceClientFails
    \/ InstanceGetAccountFails
    \/ InstanceOk

\* boto3.session.Session(**session_details) with a keyword it does not take:
\* TypeError, which load_creds does not catch
SessionTypeError ==
    /\ pc = "session"
    /\ ~ (DOMAIN session_details \subseteq SessionParams)
    /\ session_details' = session_details @@ ("region_name" :> region)
    /\ crash("TypeError")
    /\ UNCHANGED <<credVars, argVars, client, apis, uri, calls, locVars>>

\* The session and the client are made
SessionOk ==
    /\ pc = "session"
    /\ DOMAIN session_details \subseteq SessionParams
    /\ session_details' = session_details @@ ("region_name" :> region)
    /\ client' = "apigateway"
    /\ pc' = "main"
    /\ UNCHANGED <<credVars, argVars, apis, uri, out, status, errmsg, calls, locVars>>

\* ClientError or NoRegionError in the try block: error(error)
SessionError ==
    /\ pc = "session"
    /\ DOMAIN session_details \subseteq SessionParams
    /\ session_details' = session_details @@ ("region_name" :> region)
    /\ \E exc \in {"ClientError", "NoRegionError"} :
         /\ exc = "NoRegionError" => region = ""
         /\ error(out, exc)
    /\ UNCHANGED <<credVars, argVars, client, apis, uri, calls, locVars>>

NoLocals ==
    /\ items = << >> /\ idx = 0 /\ resource_id = "" /\ new_url = << >>
    /\ response_id = 0 /\ result = "None"

InitCreds ==
    /\ profile_name \in Values
    /\ access_key \in Values
    /\ secret_access_key \in Values
    /\ session_token \in Values
    /\ region \in Regions
    /\ command \in {"list", "create"}
    /\ api_id = 0
    /\ url = << >>
    /\ client = "None"
    /\ session_details = << >>
    /\ apis = << >>
    /\ apis0 = << >>
    /\ uri = << >>
    /\ pc = "init" /\ status = "running" /\ errmsg = ""
    /\ out = << >> /\ calls = << >>
    /\ NoLocals

NextCreds ==
    \/ Construct
    \/ load_creds
    \/ try_instance_profile
    \/ SessionTypeError
    \/ SessionOk
    \/ SessionError

SpecCreds == InitCreds /\ [][NextCreds]_vars

---------------------------------------------------------------------------
(* The provider *)

ApiIds == 1 .. MaxApis
\* The id the provider gives an imported gateway
NewApiId == MaxApis + 1

Range(f) == {f[i] : i \in DOMAIN f}

RECURSIVE Ascending(_, _)
Ascending(S, from) ==
    IF from > MaxApis THEN << >>
    ELSE IF from \in S THEN <<from>> \o Ascending(S, from + 1)
    ELSE Ascending(S, from + 1)

Remove(s, id) == SelectSeq(s, LAMBDA e : e # id)

\* The responses get_resources may give: the resources of a gateway, with or
\* without the wildcard resource
ResourceLists ==
    { << >>,
      <<[id |-> "r0", path |-> "/"]>>,
      <<[id |-> "r0", path |-> "/"], [id |-> "r1", path |-> "/{proxy+}"]>> }

DefaultUri == <<"x", "/", "{proxy}">>

\* What lies between the first `open` and the next `close` token
RECURSIVE Until(_, _)
Until(s, close) ==
    IF s = << >> \/ Head(s) = close THEN << >>
    ELSE <<Head(s)>> \o Until(Tail(s), close)

RECURSIVE Between(_, _, _)
Between(s, open, close) ==
    IF s = << >> THEN << >>
    ELSE IF Head(s) = open THEN Until(Tail(s), close)
    ELSE Between(Tail(s), open, close)

\* The integration URIs of a definition document: of the root route and of
\* the wildcard route
RootUri(doc) == Between(doc, "T2", "T3")
ProxyUri(doc) == Between(doc, "T3", "T4")

---------------------------------------------------------------------------
(* main and the commands *)

Commands == {"list", "create", "delete", "update", "purge"}
stageName == "fireprox"
Proxy == <<"/", "{proxy}">>

\* get_resource's loop: the id of the first resource whose path is the
\* wildcard path, "" (None) without one
RECURSIVE get_resource(_)
get_resource(rs) ==
    IF rs = << >> THEN ""
    ELSE IF Head(rs).path = "/{proxy+}" THEN Head(rs).id
    ELSE get_resource(Tail(rs))

\* delete_api's loop deletes as soon as the listing is not empty
FindItemAny(its, id) == its # << >>

\* delete_api's loop: is there an item whose id is api_id
FindItem(its, id) == \E i \in 1 .. Len(its) : its[i] = id

\* delete_api deletes the first gateway listed
DeleteTargetFirst(its, id) == its[1]

\* restApiId of delete_rest_api
DeleteTarget(its, id) == id

\* create_api deploys the gateway named on the command line
DeployTargetArg(resp_id, arg_id) == arg_id

\* restApiId of create_deployment: response['id'] of the import
DeployTarget(resp_id, arg_id) == resp_id

\* The value update_api patches into /uri
PatchValue(u) == u \o Proxy

\* update_api's result, from the uri of the response
UpdateResult(resp_uri, u) == Replace(resp_uri, Proxy, << >>) = u

Bool(b) == IF b THEN "True" ELSE "False"

Finish(printed, res) ==
    /\ out' = printed
    /\ result' = res
    /\ status' = "ok"
    /\ pc' = "done"
    /\ UNCHANGED errmsg

MainList ==
    /\ pc = "main" /\ command = "list"
    /\ out' = Append(out, Line("Listing", 0))
    /\ pc' = "get_rest_apis"
    /\ UNCHANGED <<credVars, argVars, sessVars, apis, uri, status, errmsg,
                   calls, locVars>>

\* create_api up to the import
MainCreate ==
    /\ pc = "main" /\ command = "create"
    /\ IF url = << >>
       THEN error(out, "Please provide a valid URL end-point")
       ELSE /\ out' = Append(out, Line("Creating", 0))
            /\ pc' = "import_rest_api"
            /\ UNCHANGED <<status, errmsg>>
    /\ UNCHANGED <<credVars, argVars, sessVars, apis, uri, calls, locVars>>

\* delete_api up to list_api
MainDelete ==
    /\ pc = "main" /\ command = "delete"
    /\ IF api_id = 0
       THEN error(out, "Please provide a valid API ID")
       ELSE /\ pc' = "get_rest_apis"
            /\ UNCHANGED <<out, status, errmsg>>
    /\ UNCHANGED <<credVars, argVars, sessVars, apis, uri, calls, locVars>>

\* update_api up to the call in get_resource
MainUpdate ==
    /\ pc = "main" /\ command = "update"
    /\ LET printed == Append(out, Line("Updating", api_id))
       IN  IF api_id = 0 /\ url = << >>
           THEN /\ error(printed, "Please provide a valid API ID and URL end-point")
                /\ UNCHANGED new_url
           ELSE IF url = << >>
           THEN \* url[-1]: TypeError when url is None, IndexError when it is ''
                /\ out' = printed
                /\ status' = "crash"
                /\ errmsg' \in {"TypeError", "IndexError"}
                /\ pc' = "done"
                /\ UNCHANGED new_url
           ELSE /\ new_url' = StripSlash(url)
                /\ IF api_id = 0
                   THEN error(printed, "Please provide a valid API ID")
                   ELSE /\ out' = printed
                        /\ pc' = "get_resources"
                        /\ UNCHANGED <<status, errmsg>>
    /\ UNCHANGED <<credVars, argVars, sessVars, apis, uri, calls,
                   items, idx, resource_id, response_id, result>>

MainUnsupported ==
    /\ pc = "main"
    /\ command \notin {"list", "create", "delete", "update"}
    /\ out' = out \o <<Line("Unsupported command", 0), Line("help", 0)>>
    /\ status' = "exit"
    /\ errmsg' = "1"
    /\ pc' = "done"
    /\ UNCHANGED <<credVars, argVars, sessVars, apis, uri, calls, locVars>>

\* list_api: get_rest_apis
GetRestApis ==
    /\ pc = "get_rest_apis"
    /\ \E ok \in BOOLEAN :
         /\ calls' = Append(calls, Call("get_rest_apis", 0, ok, << >>))
         /\ IF ok
            THEN /\ items' = apis
                 /\ idx' = 1
                 /\ pc' = "list_loop"
                 /\ UNCHANGED <<out, status, errmsg>>
            ELSE /\ error(out, "ClientError")
                 /\ UNCHANGED <<items, idx>>
    /\ UNCHANGED <<credVars, argVars, sessVars, apis, uri,
                   resource_id, new_url, response_id, result>>

\* list_api's loop body: get_integration -> get_resource, the call fails.
\* error() prints the help text and raises SystemExit, which the bare
\* except of the loop body catches: the loop goes on.
ListGetResourcesFails ==
    /\ pc = "list_loop" /\ idx <= Len(items)
    /\ calls' = Append(calls, Call("get_resources", items[idx], FALSE, << >>))
    /\ out' = Append(out, Line("help", 0))
    /\ idx' = idx + 1
    /\ UNCHANGED <<credVars, argVars, sessVars, apis, uri, pc, status, errmsg,
                   items, resource_id, new_url, response_id, result>>

\* list_api's loop body: get_integration -> get_resource, the call succeeds
ListGetResourcesOk ==
    /\ pc = "list_loop" /\ idx <= Len(items)
    /\ \E rs \in ResourceLists :
         /\ calls' = Append(calls, Call("get_resources", items[idx], TRUE, << >>))
         /\ resource_id' = get_resource(rs)
    /\ pc' = "list_get_integration"
    /\ UNCHANGED <<credVars, argVars, sessVars, apis, uri, out, status, errmsg,
                   items, idx, new_url, response_id, result>>

\* get_integration with resourceId=None: the client refuses the parameter
\* before any request (ParamValidationError), the bare except catches it
ListNoResource ==
    /\ pc = "list_get_integration" /\ resource_id = ""
    /\ idx' = idx + 1
    /\ pc' = "list_loop"
    /\ UNCHANGED <<credVars, argVars, sessVars, apis, uri, out, status, errmsg,
                   calls, items, resource_id, new_url, response_id, result>>

\* get_integration: the call, then the line of the gateway
ListGetIntegration ==
    /\ pc = "list_get_integration" /\ resource_id # ""
    /\ \E ok \in BOOLEAN :
         /\ calls' = Append(calls, Call("get_integration", items[idx], ok, << >>))
         /\ out' = IF ~ok THEN Append(out, Line("help", 0))
                   ELSE IF command = "delete" /\ items[idx] = api_id THEN out
                   ELSE Append(out, Line("api", items[idx]))
    /\ idx' = idx + 1
    /\ pc' = "list_loop"
    /\ UNCHANGED <<credVars, argVars, sessVars, apis, uri, status, errmsg,
                   items, resource_id, new_url, response_id, result>>

\* list_api returns response['items']
ListReturn ==
    /\ pc = "list_loop" /\ idx > Len(items)
    /\ IF command = "list"
       THEN Finish(out, "items")
       ELSE /\ pc' = "delete_loop"
            /\ UNCHANGED <<out, result, status, errmsg>>
    /\ UNCHANGED <<credVars, argVars, sessVars, apis, uri, calls,
                   items, idx, resource_id, new_url, response_id>>

\* delete_api: no item has the id
DeleteNotFound ==
    /\ pc = "delete_loop"
    /\ ~ FindItem(items, api_id)
    /\ Finish(Append(out, Line("Deleting: Failed!", api_id)), "False")
    /\ UNCHANGED <<credVars, argVars, sessVars, apis, uri, calls,
                   items, idx, resource_id, new_url, response_id>>

\* delete_api: an item has the id, delete_rest_api
DeleteRestApi ==
    /\ pc = "delete_loop"
    /\ FindItem(items, api_id)
    /\ LET target == DeleteTarget(items, api_id)
       IN  \E ok \in BOOLEAN :
             /\ calls' = Append(calls, Call("delete_rest_api", target, ok, << >>))
             /\ IF ok
                THEN /\ apis' = Remove(apis, target)
                     /\ Finish(Append(out, Line("Deleting: Success!", api_id)), "True")
                ELSE /\ error(out, "ClientError")
                     /\ UNCHANGED <<apis, result>>
    /\ UNCHANGED <<credVars, argVars, sessVars, uri,
                   items, idx, resource_id, new_url, response_id>>

\* create_api: get_template and import_rest_api
ImportRestApi ==
    /\ pc = "import_rest_api"
    /\ LET body == get_template(url)
       IN  \E ok \in BOOLEAN :
             /\ calls' = Append(calls, Call("import_rest_api",
                                            IF ok THEN NewApiId ELSE 0, ok, body))
             /\ IF ok
                THEN /\ apis' = Append(apis, NewApiId)
                     /\ uri' = [uri EXCEPT ![NewApiId] = ProxyUri(body)]
                     /\ response_id' = NewApiId
                     /\ pc' = "create_deployment"
                     /\ UNCHANGED <<out, status, errmsg>>
                ELSE /\ error(out, "ClientError")
                     /\ UNCHANGED <<apis, uri, response_id>>
    /\ UNCHANGED <<credVars, argVars, sessVars,
                   items, idx, resource_id, new_url, result>>

\* create_deployment, then store_api
CreateDeployment ==
    /\ pc = "create_deployment"
    /\ \E ok \in BOOLEAN :
         /\ calls' = Append(calls, Call("create_deployment",
                               DeployTarget(response_id, api_id), ok, <<stageName>>))
         /\ IF ok
            THEN Finish(Append(out, Line("summary", response_id)), "None")
            ELSE /\ error(out, "ClientError")
                 /\ UNCHANGED result
    /\ UNCHANGED <<credVars, argVars, sessVars, apis, uri,
                   items, idx, resource_id, new_url, response_id>>

\* update_api: get_resource, the call fails
UpdateGetResourcesFails ==
    /\ pc = "get_resources"
    /\ calls' = Append(calls, Call("get_resources", api_id, FALSE, << >>))
    /\ error(out, "ClientError")
    /\ UNCHANGED <<credVars, argVars, sessVars, apis, uri, locVars>>

\* update_api: get_resource, the call succeeds (the provider knows the
\* resources of the gateways that exist only)
UpdateGetResourcesOk ==
    /\ pc = "get_resources"
    /\ api_id \in Range(apis)
    /\ \E rs \in ResourceLists :
         /\ calls' = Append(calls, Call("get_resources", api_id, TRUE, << >>))
         /\ IF get_resource(rs) = ""
            THEN /\ error(out, "Unable to update, no valid resource")
                 /\ UNCHANGED resource_id
            ELSE /\ resource_id' = get_resource(rs)
                 /\ out' = Append(out, Line("Found resource", api_id))
                 /\ pc' = "update_integration"
                 /\ UNCHANGED <<status, errmsg>>
    /\ UNCHANGED <<credVars, argVars, sessVars, apis, uri,
                   items, idx, new_url, response_id, result>>

\* update_api: update_integration and the comparison
UpdateIntegration ==
    /\ pc = "update_integration"
    /\ \E ok \in BOOLEAN :
         /\ calls' = Append(calls, Call("update_integration", api_id, ok,
                                        PatchValue(new_url)))
         /\ IF ok
            THEN /\ uri' = [uri EXCEPT ![api_id] = PatchValue(new_url)]
                 /\ LET res == Bool(UpdateResult(uri'[api_id], new_url))
                    IN  Finish(Append(out, Line("API Update Complete", api_id)), res)
            ELSE /\ error(out, "ClientError")
                 /\ UNCHANGED <<uri, result>>
    /\ UNCHANGED <<credVars, argVars, sessVars, apis,
                   items, idx, resource_id, new_url, response_id>>

\* The state main starts from: a FireProx whose client was made, from the
\* ambient credentials (the constructor called get_account) or from a profile
\* (the constructor called nothing)
Init ==
    /\ access_key = "" /\ secret_access_key = ""
    /\ session_token = "" /\ region = "us-east-1"
    /\ client = "apigateway"
    /\ \/ /\ profile_name = ""
          /\ session_details = << >>
          /\ calls = <<Call("get_account", 0, TRUE, << >>)>>
       \/ /\ profile_name = "v"
          /\ session_details = ("profile_name" :> "v") @@ ("region_name" :> region)
          /\ calls = << >>
    /\ command \in Commands
    /\ api_id \in 0 .. MaxApis
    /\ url \in Urls
    /\ \E S \in SUBSET ApiIds :
         /\ apis = Ascending(S, 1)
         /\ apis0 = Ascending(S, 1)
         /\ uri = [i \in 1 .. NewApiId |-> IF i \in S THEN DefaultUri ELSE << >>]
    /\ pc = "main" /\ status = "running" /\ errmsg = ""
    /\ out = << >>
    /\ NoLocals

Next ==
    \/ MainList
    \/ MainCreate
    \/ MainDelete
    \/ MainUpdate
    \/ MainUnsupported
    \/ GetRestApis
    \/ ListGetResourcesFails
    \/ ListGetResourcesOk
    \/ ListNoResource
    \/ ListGetIntegration
    \/ ListReturn
    \/ DeleteNotFound
    \/ DeleteRestApi
    \/ ImportRestApi
    \/ CreateDeployment
    \/ UpdateGetResourcesFails
    \/ UpdateGetResourcesOk
    \/ UpdateIntegration

Spec == Init /\ [][Next]_vars

---------------------------------------------------------------------------
(* Properties *)

\* The provider calls of the command: all but the constructor's get_account
Cmd == SelectSeq(calls, LAMBDA c : c.op # "get_account")
Ran(op) == {i \in 1 .. Len(Cmd) : Cmd[i].op = op}
Printed(k) == \E i \in 1 .. Len(out) : out[i].k = k
Supplied(v) == v # ""
Constructed == pc \in {"main", "done"}

StripOne(u) ==
    IF u # << >> /\ u[Len(u)] = "/" THEN SubSeq(u, 1, Len(u) - 1) ELSE u

RemoveSuffix(s, suf) ==
    IF Len(s) >= Len(suf) /\ SubSeq(s, Len(s) - Len(suf) + 1, Len(s)) = suf
    THEN SubSeq(s, 1, Len(s) - Len(suf))
    ELSE s

\* C1: every failed provider call is fatal at once: it is the last call of
\* the run, the help text is the last thing printed, and the process has
\* ended with the error.
C1_FailedCallIsFatal ==
    \A i \in 1 .. Len(calls) :
        ~ calls[i].ok =>
            /\ i = Len(calls)
            /\ status = "exit"
            /\ out # << >> /\ out[Len(out)].k = "help"

InstanceTried ==
    /\ session_details = << >>
    /\ client = "apigateway" \/ errmsg = "Unable to load AWS credentials"
ProfileUsed ==
    /\ "profile_name" \in DOMAIN session_details
    /\ session_details["profile_name"] = profile_name
    /\ "aws_access_key_id" \notin DOMAIN session_details
    /\ "aws_secret_access_key" \notin DOMAIN session_details
KeysUsed ==
    /\ "aws_access_key_id" \in DOMAIN session_details
    /\ session_details["aws_access_key_id"] = access_key
    /\ "aws_secret_access_key" \in DOMAIN session_details
    /\ session_details["aws_secret_access_key"] = secret_access_key
    /\ "profile_name" \notin DOMAIN session_details
UsageError ==
    /\ status = "exit"
    /\ errmsg = "Please configure a profile or provice access keys"
    /\ client = "None"
    /\ session_details = << >>
ResolutionOrder ==
    IF ~ Supplied(profile_name) /\ ~ Supplied(access_key)
       /\ ~ Supplied(secret_access_key)
    THEN InstanceTried
    ELSE IF Supplied(profile_name) THEN ProfileUsed
    ELSE IF Supplied(access_key) /\ Supplied(secret_access_key) THEN KeysUsed
    ELSE UsageError

\* C2 as stated: once the constructor is through, the credential source is
\* the one the fixed order names, for every (profile, access key, secret key).
C2_ResolutionOrder == Constructed => ResolutionOrder

\* C2, amended: with an access key and a secret key and an empty region the
\* constructor fails with the region usage error before any resolution,
\* whatever the profile; in every other case the source is the one the
\* fixed order names.
C2_ResolutionOrderGivenRegion ==
    Constructed =>
        IF Supplied(access_key) /\ Supplied(secret_access_key) /\ region = ""
        THEN /\ status = "exit"
             /\ errmsg = "Please provide a region with AWS credentials"
             /\ client = "None"
             /\ session_details = << >>
        ELSE ResolutionOrder

\* A profile and both keys were given with a region, and the client was made
\* from the profile alone.
C2_Witness ==
    /\ pc = "main" /\ client = "apigateway"
    /\ Supplied(profile_name) /\ Supplied(access_key)
    /\ Supplied(secret_access_key)
    /\ DOMAIN session_details = {"profile_name", "region_name"}

\* C3: with access key, secret key and session token (no profile, a region),
\* the session is built from the three values under the parameter names the
\* session constructor takes, and the constructor call does not fail on them.
C3_SessionTokenPassed ==
    ( /\ Constructed
      /\ ~ Supplied(profile_name) /\ Supplied(access_key)
      /\ Supplied(secret_access_key) /\ Supplied(session_token)
      /\ region # "" )
    => /\ DOMAIN session_details =
            {"aws_access_key_id", "aws_secret_access_key",
             "aws_session_token", "region_name"}
       /\ session_details["aws_session_token"] = session_token
       /\ status # "crash"

\* C4: a deletion request is made at most once, only for the given id and
\* only when the id is in the listing fetched just before; once delete is
\* through with a listing, the request was made iff the id is in the listing,
\* a returned result is true iff the id is in the listing, and without the
\* id in the listing delete returns false.
C4_DeleteIffListed ==
    command = "delete" =>
        LET listed == api_id \in Range(items)
            dels   == Ran("delete_rest_api")
        IN  /\ Cardinality(dels) <= 1
            /\ \A i \in dels :
                 /\ Cmd[i].id = api_id /\ listed
                 /\ i = Len(Cmd) /\ Cmd[1].op = "get_rest_apis" /\ Cmd[1].ok
            /\ (pc = "done" /\ Cmd # << >> /\ Cmd[1].ok) =>
                 /\ dels # {} <=> listed
                 /\ status = "ok" => result = (IF listed THEN "True" ELSE "False")
                 /\ ~ listed => status = "ok" /\ result = "False"

\* Delete found the id among two listed gateways, deleted it and returned true.
C4_Witness ==
    /\ command = "delete" /\ pc = "done" /\ status = "ok" /\ result = "True"
    /\ Len(items) = 2 /\ api_id \in Range(items)
    /\ Ran("delete_rest_api") # {}

\* C5: update with a missing id or a missing URL ends in the usage error
\* 'Please provide a valid API ID and URL end-point', with no provider call
\* of the command.
C5_UpdateNeedsIdAndUrl ==
    (command = "update" /\ (api_id = 0 \/ url = << >>) /\ pc = "done") =>
        /\ status = "exit"
        /\ errmsg = "Please provide a valid API ID and URL end-point"
        /\ Cmd = << >>
        /\ out[Len(out)].k = "help"

\* C6: the patch is made only with a wildcard resource and sets the URI to
\* the stripped URL followed by '/{proxy}'; update returns true iff the URI
\* the provider returned, with the suffix '/{proxy}' removed, is the URL.
C6_UpdateTrueIffUriMatches ==
    command = "update" =>
        /\ \A i \in Ran("update_integration") :
             /\ Cmd[i].arg = StripOne(url) \o <<"/", "{proxy}">>
             /\ resource_id # ""
        /\ (pc = "done" /\ status = "ok") =>
             (result = "True" <=>
                RemoveSuffix(uri[api_id], <<"/", "{proxy}">>) = StripOne(url))

\* C7: create without a URL fails with the usage error and calls nothing;
\* otherwise the import is the first call, the deployment is made only after
\* a successful import, as the second call, on the id the import returned and
\* with the stage name 'fireprox', and the summary line is printed only after
\* a successful deployment.
C7_CreateOrder ==
    command = "create" =>
        /\ url = << >> =>
             /\ Cmd = << >>
             /\ pc = "done" =>
                  /\ status = "exit"
                  /\ errmsg = "Please provide a valid URL end-point"
        /\ Len(Cmd) <= 2
        /\ Cmd # << >> => Cmd[1].op = "import_rest_api"
        /\ \A i \in Ran("create_deployment") :
             /\ i = 2 /\ Cmd[1].ok
             /\ Cmd[i].id = Cmd[1].id
             /\ Cmd[i].arg = <<"fireprox">>
        /\ Printed("summary") =>
             /\ Len(Cmd) = 2
             /\ Cmd[2].op = "create_deployment" /\ Cmd[2].ok

\* Create imported, deployed and printed the summary line.
C7_Witness ==
    /\ command = "create" /\ pc = "done" /\ status = "ok"
    /\ Printed("summary")
    /\ Len(Cmd) = 2 /\ Cmd[1].ok /\ Cmd[2].ok

\* C8: the backend URL in the integration URIs of the document create
\* submits, and in the URI update patches and compares with, is the URL
\* without its one trailing slash (the URL itself when it has none).
C8_OneSlashStripped ==
    /\ \A i \in Ran("import_rest_api") :
         /\ RootUri(Cmd[i].arg) = StripOne(url) \o <<"/">>
         /\ ProxyUri(Cmd[i].arg) = StripOne(url) \o <<"/", "{proxy}">>
    /\ \A i \in Ran("update_integration") :
         /\ Cmd[i].arg = StripOne(url) \o <<"/", "{proxy}">>
         /\ (pc = "done" /\ status = "ok") =>
              (result = "True" <=>
                 Replace(uri[api_id], <<"/", "{proxy}">>, << >>) = StripOne(url))

\* C9: the document is the template with the timestamp, the title and, in
\* the two integration URIs, the stripped URL put in place of the
\* placeholders, each whatever the URL holds: the URL stands in the root URI
\* ('<url>/') and in the wildcard URI ('<url>/{proxy}') as it is.
C9_DocumentHoldsUrlTwice ==
    \A i \in Ran("import_rest_api") :
        Cmd[i].arg =
            <<"T0">> \o version_date \o <<"T1", "fireprox_">>
            \o Domain(StripOne(url)) \o <<"T2">>
            \o StripOne(url) \o <<"/", "T3">>
            \o StripOne(url) \o <<"/", "{proxy}", "T4">>

\* C10: list, update and an unsupported command leave the gateways of the
\* account as they were; delete removes at most the gateway with the given
\* id; create adds at most one gateway and removes none, and the imported
\* gateway stays when the deployment fails.
C10_GatewayFrame ==
    CASE command \in {"list", "update"} -> apis = apis0
      [] command = "delete" ->
            \/ apis = apis0
            \/ /\ apis = SelectSeq(apis0, LAMBDA g : g # api_id)
               /\ Len(apis) = Len(apis0) - 1
      [] command = "create" ->
            /\ Len(apis) \in {Len(apis0), Len(apis0) + 1}
            /\ SubSeq(apis, 1, Len(apis0)) = apis0
            /\ (Ran("import_rest_api") # {} /\ Cmd[1].ok)
                  => Len(apis) = Len(apis0) + 1
      [] OTHER -> apis = apis0

\* The import succeeded, the deployment failed, and the new gateway is there.
C10_Witness ==
    /\ command = "create" /\ pc = "done" /\ status = "exit"
    /\ Len(Cmd) = 2 /\ Cmd[1].ok /\ ~ Cmd[2].ok
    /\ Len(apis) = Len(apis0) + 1

====
